---- MODULE Spec2Model ----
(***************************************************************************)
(* A model of qhard.fluxonium.Fluxonium: the validated parameter store,    *)
(* the lazily computed and invalidated-on-write eigenspectrum cache, and   *)
(* the accessors that read it.                                             *)
(*                                                                         *)
(* Numerical content is abstracted as follows.  The LC-basis Hamiltonian   *)
(* is a pure function of (E_L, E_C, E_J, phi_ext, nlev_lc), so it is       *)
(* represented by that tuple.  The dense eigensolver is a deterministic    *)
(* function of the Hamiltonian returning nlev_lc ascending eigenvalues     *)
(* and nlev_lc eigenvectors; it is represented by an injective integer     *)
(* coding of the Hamiltonian, so that a spectrum of superseded parameters  *)
(* is distinguishable from the spectrum of the current ones.  Python       *)
(* arrays are sequences; Python index i is sequence index i + 1.           *)
(*                                                                         *)
(* The caller is synchronous: a call runs to completion and leaves its     *)
(* outcome in `last` (the response in flight); Return hands it to the      *)
(* caller, who may then make the next call.                                *)
(***************************************************************************)
EXTENDS Integers, Sequences, FiniteSets, TLC

VARIABLES E_L, E_C, E_J, phi_ext, nlev, nlev_lc, eigvals, eigvecs, valsDiag, vecsDiag, last, pc, H_loc, w_val, locking, lock

vars == <<E_L, E_C, E_J, phi_ext, nlev, nlev_lc, eigvals, eigvecs, valsDiag, vecsDiag, last, pc, H_loc, w_val, locking, lock>>

devVars == <<E_L, E_C, E_J, phi_ext, nlev, nlev_lc>>

cacheVars == <<eigvals, eigvecs, valsDiag, vecsDiag>>

threadVars == <<pc, H_loc, w_val, locking, lock>>

\* ------------------------------------------------------------------ bounds
MaxE == 2

MaxPhi == 1

MaxLev == 2

MaxJ == 1

\* ------------------------------------------------------------ input sets
EnergyArgs == 0..MaxE

PhiArgs == 0..MaxPhi

LevArgs == 0..(MaxLev + 1)

IndexArgs == (0 - 1)..(MaxLev + 1)

EJArgs == 0..MaxJ

\* phi_points omitted, a float (or int or ndarray), or any other type
PhiPointsKinds == {"None", "float", "str"}

\* Python's None, for the cache fields and for an omitted argument.
None == <<>>

OptArgs(S) == {None} \cup {<<k>> : k \in S}

\* --------------------------------------------------- numerical abstraction
Stride == MaxLev + 3

\* _phi_lc / _n_lc: LC-basis operators depend on E_C, E_L and nlev_lc only.
LcOperator(eC, eL, dim) == ((eC * (MaxE + 2)) + eL) * Stride + dim

NLc == (MaxE + 2) * (MaxE + 2) * Stride

\* _hamiltonian_lc: the Hamiltonian as a function of the five parameters.
HamiltonianOf(eL, eC, eJ, phi, dim) == [E_L |-> eL, E_C |-> eC, E_J |-> eJ, phi_ext |-> phi, dim |-> dim]

_hamiltonian_lc == HamiltonianOf(E_L, E_C, E_J, phi_ext, nlev_lc)

HCode(H) == ((((H.E_L * (MaxE + 2) + H.E_C) * (MaxJ + 2) + H.E_J) * (MaxPhi + 2)) + H.phi_ext) * Stride + H.dim

\* Qobj.eigenenergies(): H.dim eigenvalues in ascending order.
eigenenergies(H) == [k \in 1..H.dim |-> HCode(H) * Stride + k]

\* Qobj.eigenstates(): eigenvector k belongs to eigenvalue k.
eigenstates(H) == [k \in 1..H.dim |-> HCode(H) * Stride + k]

\* Qobj.matrix_element(bra, ket) of an LC operator between two eigenvectors.
matrix_element(tag, lc, bra, ket) == (((bra * Stride + (ket % Stride)) * NLc) + lc) * 2 + tag

\* ------------------------------------------------------------ call record
\* The outcome of the call in flight: the operation, its arguments, the
\* exception raised ("" when it returned), the value returned, and whether the
\* call diagonalized the Hamiltonian.  `pre` records what the call found:
\* whether eigvals / eigvecs were cached, and the value a setter replaced.
Pre(old) == [vals |-> eigvals # None, vecs |-> eigvecs # None, old |-> old]

Ret(op, args, kind, err, ret, computed) == [op |-> op, args |-> args, kind |-> kind, err |-> err, ret |-> ret, computed |-> computed, pre |-> Pre(<<>>)]

RetSet(op, value, old, kind, err) == [op |-> op, args |-> <<value>>, kind |-> kind, err |-> err, ret |-> <<>>, computed |-> FALSE, pre |-> Pre(<<old>>)]

Constructed == [op |-> "__init__", args |-> <<>>, kind |-> "", err |-> "", ret |-> <<>>, computed |-> FALSE, pre |-> [vals |-> FALSE, vecs |-> FALSE, old |-> <<>>]]

\* No call in flight: the caller holds the last outcome and may call again.
NoCall == [op |-> "", args |-> <<>>, kind |-> "", err |-> "", ret |-> <<>>, computed |-> FALSE, pre |-> [vals |-> FALSE, vecs |-> FALSE, old |-> <<>>]]

Ready == last = NoCall

Return ==
    /\ last # NoCall
    /\ last' = NoCall
    /\ UNCHANGED <<E_L, E_C, E_J, phi_ext, nlev, nlev_lc, eigvals, eigvecs, valsDiag, vecsDiag, pc, H_loc, w_val, locking, lock>>

\* -------------------------------------------------------- parameter store
_reset_cache_keeps_eigvecs == eigvals' = None /\ valsDiag' = 0 /\ UNCHANGED <<eigvecs, vecsDiag>>

\* _reset_cache
_reset_cache == eigvals' = None /\ eigvecs' = None /\ valsDiag' = 0 /\ vecsDiag' = 0

NotPositive_strict(value) == value < 0

\* `if value <= 0` of the E_L, E_C and nlev_lc setters
NotPositive(value) == value <= 0

E_L_setter(value) ==
    /\ Ready
    /\ IF NotPositive(value)
         THEN /\ last' = RetSet("E_L", value, E_L, "", "InvalidParameter")
              /\ UNCHANGED <<E_L, cacheVars>>
         ELSE /\ E_L' = value
              /\ _reset_cache
              /\ last' = RetSet("E_L", value, E_L, "", "")
    /\ UNCHANGED <<E_C, E_J, phi_ext, nlev, nlev_lc, threadVars>>

E_C_setter(value) ==
    /\ Ready
    /\ IF NotPositive(value)
         THEN /\ last' = RetSet("E_C", value, E_C, "", "InvalidParameter")
              /\ UNCHANGED <<E_C, cacheVars>>
         ELSE /\ E_C' = value
              /\ _reset_cache
              /\ last' = RetSet("E_C", value, E_C, "", "")
    /\ UNCHANGED <<E_L, E_J, phi_ext, nlev, nlev_lc, threadVars>>

E_J_setter_no_reset(value) ==
    /\ Ready
    /\ E_J' = value
    /\ last' = RetSet("E_J", value, E_J, IF value <= 0 THEN "warning" ELSE "", "")
    /\ UNCHANGED <<E_L, E_C, phi_ext, nlev, nlev_lc, cacheVars, threadVars>>

\* E_J <= 0 only prints a warning; the write and the reset happen regardless.
E_J_setter(value) ==
    /\ Ready
    /\ E_J' = value
    /\ _reset_cache
    /\ last' = RetSet("E_J", value, E_J, IF value <= 0 THEN "warning" ELSE "", "")
    /\ UNCHANGED <<E_L, E_C, phi_ext, nlev, nlev_lc, threadVars>>

phi_ext_setter(value) ==
    /\ Ready
    /\ phi_ext' = value
    /\ _reset_cache
    /\ last' = RetSet("phi_ext", value, phi_ext, "", "")
    /\ UNCHANGED <<E_L, E_C, E_J, nlev, nlev_lc, threadVars>>

nlev_lc_setter(value) ==
    /\ Ready
    /\ IF NotPositive(value)
         THEN /\ last' = RetSet("nlev_lc", value, nlev_lc, "", "InvalidParameter")
              /\ UNCHANGED <<nlev_lc, cacheVars>>
         ELSE /\ nlev_lc' = value
              /\ _reset_cache
              /\ last' = RetSet("nlev_lc", value, nlev_lc, "", "")
    /\ UNCHANGED <<E_L, E_C, E_J, phi_ext, nlev, threadVars>>

\* nlev is a plain attribute: assignment stores anything and resets nothing.
nlev_assign(value) ==
    /\ Ready
    /\ nlev' = value
    /\ last' = RetSet("nlev", value, nlev, "", "")
    /\ UNCHANGED <<E_L, E_C, E_J, phi_ext, nlev_lc, cacheVars, threadVars>>

\* ------------------------------------------------------ eigensolver + cache
\* Each diagonalization (a call of eigenenergies or eigenstates) gets an
\* identifier not borne by anything in the cache; valsDiag and vecsDiag record
\* which diagonalization wrote eigvals and eigvecs (0: none).
NewDiag == CHOOSE d \in 1..3 : d \notin {valsDiag, vecsDiag} /\ \A e \in 1..(d - 1) : e \in {valsDiag, vecsDiag}

_eigenspectrum_lc_always_recomputes(eigvecs_flag) ==
    IF ~eigvecs_flag
      THEN [eigvals |-> eigenenergies(_hamiltonian_lc), eigvecs |-> eigvecs, valsDiag |-> NewDiag, vecsDiag |-> vecsDiag, computed |-> TRUE]
      ELSE [eigvals |-> eigenenergies(_hamiltonian_lc), eigvecs |-> eigenstates(_hamiltonian_lc), valsDiag |-> NewDiag, vecsDiag |-> NewDiag, computed |-> TRUE]

_eigenspectrum_lc_keeps_eigvals(eigvecs_flag) ==
    IF ~eigvecs_flag
      THEN IF eigvals = None
             THEN [eigvals |-> eigenenergies(_hamiltonian_lc), eigvecs |-> eigvecs, valsDiag |-> NewDiag, vecsDiag |-> vecsDiag, computed |-> TRUE]
             ELSE [eigvals |-> eigvals, eigvecs |-> eigvecs, valsDiag |-> valsDiag, vecsDiag |-> vecsDiag, computed |-> FALSE]
      ELSE IF eigvals = None
             THEN [eigvals |-> eigenenergies(_hamiltonian_lc), eigvecs |-> eigenstates(_hamiltonian_lc), valsDiag |-> NewDiag, vecsDiag |-> NewDiag, computed |-> TRUE]
             ELSE IF eigvecs = None
               THEN [eigvals |-> eigvals, eigvecs |-> eigenstates(_hamiltonian_lc), valsDiag |-> valsDiag, vecsDiag |-> NewDiag, computed |-> TRUE]
               ELSE [eigvals |-> eigvals, eigvecs |-> eigvecs, valsDiag |-> valsDiag, vecsDiag |-> vecsDiag, computed |-> FALSE]

\* _eigenspectrum_lc: the cache after the call, and whether it diagonalized.
_eigenspectrum_lc(eigvecs_flag) ==
    IF ~eigvecs_flag
      THEN IF eigvals = None
             THEN [eigvals |-> eigenenergies(_hamiltonian_lc), eigvecs |-> eigvecs, valsDiag |-> NewDiag, vecsDiag |-> vecsDiag, computed |-> TRUE]
             ELSE [eigvals |-> eigvals, eigvecs |-> eigvecs, valsDiag |-> valsDiag, vecsDiag |-> vecsDiag, computed |-> FALSE]
      ELSE IF eigvals = None \/ eigvecs = None
             THEN [eigvals |-> eigenenergies(_hamiltonian_lc), eigvecs |-> eigenstates(_hamiltonian_lc), valsDiag |-> NewDiag, vecsDiag |-> NewDiag, computed |-> TRUE]
             ELSE [eigvals |-> eigvals, eigvecs |-> eigvecs, valsDiag |-> valsDiag, vecsDiag |-> vecsDiag, computed |-> FALSE]

\* The assignments to self._eigvals / self._eigvecs made by _eigenspectrum_lc.
StoreCache(c) ==
    /\ eigvals' = c.eigvals
    /\ eigvecs' = c.eigvecs
    /\ valsDiag' = c.valsDiag
    /\ vecsDiag' = c.vecsDiag

\* ------------------------------------------------------ eigenbasis projector
DefaultNlev_ignores_stored(arg) == IF arg = None THEN 1 ELSE arg[1]

\* `if nlev is None: nlev = self.nlev`
DefaultNlev(arg) == IF arg = None THEN nlev ELSE arg[1]

NlevOutOfBounds_exclusive(n) == n < 1 \/ n >= nlev_lc

\* `if nlev < 1 or nlev > self.nlev_lc` of levels, eye, phi and n
NlevOutOfBounds(n) == n < 1 \/ n > nlev_lc

LevelOutOfBounds_short(level_ind) == level_ind < 0 \/ level_ind >= nlev_lc - 1

\* `if level_ind < 0 or level_ind >= self.nlev_lc` of level
LevelOutOfBounds(level_ind) == level_ind < 0 \/ level_ind >= nlev_lc

\* `level < 0 or level > self.nlev_lc` of phi_ij, n_ij and wavefunc
IndexOutOfBounds(level_ind) == level_ind < 0 \/ level_ind > nlev_lc

\* Python's a[0:stop] for 0 <= stop: at most the first stop entries.
Slice(a, stop) == SubSeq(a, 1, IF stop < Len(a) THEN stop ELSE Len(a))

\* An n x n matrix in row-major order, entry[a, b] for a, b in 0..n-1.
Indices(n) == (0..(n - 1)) \X (0..(n - 1))

Matrix(n, entry) == [k \in 1..(n * n) |-> entry[<<(k - 1) \div n, (k - 1) % n>>]]

\* The cache as it stands, in the shape _eigenspectrum_lc returns it.
CacheNow == [eigvals |-> eigvals, eigvecs |-> eigvecs, valsDiag |-> valsDiag, vecsDiag |-> vecsDiag, computed |-> FALSE]

\* A call's effect: the cache it leaves and the outcome it hands back.
Apply(call) ==
    /\ Ready
    /\ StoreCache(call.c)
    /\ last' = call.r
    /\ UNCHANGED <<devVars, threadVars>>

levels_call(arg) ==
    LET n == DefaultNlev(arg) IN
      IF NlevOutOfBounds(n)
        THEN [c |-> CacheNow, r |-> Ret("levels", arg, "", "OutOfBounds", <<>>, FALSE)]
        ELSE LET c == _eigenspectrum_lc(FALSE) IN
               [c |-> c, r |-> Ret("levels", arg, "", "", Slice(c.eigvals, n), c.computed)]

levels(arg) == Apply(levels_call(arg))

level_call(level_ind) ==
    IF LevelOutOfBounds(level_ind)
      THEN [c |-> CacheNow, r |-> Ret("level", <<level_ind>>, "", "OutOfBounds", <<>>, FALSE)]
      ELSE LET c == _eigenspectrum_lc(FALSE) IN
             [c |-> c, r |-> Ret("level", <<level_ind>>, "", "", <<c.eigvals[level_ind + 1]>>, c.computed)]

level(level_ind) == Apply(level_call(level_ind))

\* freq evaluates self.level(level2) first, then self.level(level1).
freq_call(level1, level2) ==
    IF LevelOutOfBounds(level2)
      THEN [c |-> CacheNow, r |-> Ret("freq", <<level1, level2>>, "", "OutOfBounds", <<>>, FALSE)]
      ELSE LET c == _eigenspectrum_lc(FALSE) IN
             IF LevelOutOfBounds(level1)
               THEN [c |-> c, r |-> Ret("freq", <<level1, level2>>, "", "OutOfBounds", <<>>, c.computed)]
               ELSE [c |-> c, r |-> Ret("freq", <<level1, level2>>, "", "", <<c.eigvals[level2 + 1] - c.eigvals[level1 + 1]>>, c.computed)]

freq(level1, level2) == Apply(freq_call(level1, level2))

\* H(nlev) = Qobj(diag(levels(nlev)))
H(arg) ==
    /\ Ready
    /\ LET n == DefaultNlev(arg) IN
         IF NlevOutOfBounds(n)
           THEN /\ last' = Ret("H", arg, "", "OutOfBounds", <<>>, FALSE)
                /\ UNCHANGED cacheVars
           ELSE LET c == _eigenspectrum_lc(FALSE)
                    diag == [ab \in Indices(n) |-> IF ab[1] = ab[2] THEN c.eigvals[ab[1] + 1] ELSE 0]
                IN /\ StoreCache(c)
                   /\ last' = Ret("H", arg, "", "", Matrix(n, diag), c.computed)
    /\ UNCHANGED <<devVars, threadVars>>

eye(arg) ==
    /\ Ready
    /\ LET n == DefaultNlev(arg)
           qeye == [ab \in Indices(n) |-> IF ab[1] = ab[2] THEN 1 ELSE 0]
       IN IF NlevOutOfBounds(n)
            THEN last' = Ret("eye", arg, "", "OutOfBounds", <<>>, FALSE)
            ELSE last' = Ret("eye", arg, "", "", Matrix(n, qeye), FALSE)
    /\ UNCHANGED <<devVars, cacheVars, threadVars>>

\* phi(nlev) and n(nlev): tag 0 is the flux operator, tag 1 the charge operator.
EigenbasisOperator(op, tag, arg) ==
    /\ Ready
    /\ LET n == DefaultNlev(arg) IN
         IF NlevOutOfBounds(n)
           THEN /\ last' = Ret(op, arg, "", "OutOfBounds", <<>>, FALSE)
                /\ UNCHANGED cacheVars
           ELSE LET c == _eigenspectrum_lc(TRUE)
                    lc == LcOperator(E_C, E_L, nlev_lc)
                    elem == [ab \in Indices(n) |-> matrix_element(tag, lc, c.eigvecs[ab[1] + 1], c.eigvecs[ab[2] + 1])]
                IN /\ StoreCache(c)
                   /\ last' = Ret(op, arg, "", "", Matrix(n, elem), c.computed)
    /\ UNCHANGED <<devVars, threadVars>>

phi(arg) == EigenbasisOperator("phi", 0, arg)

n(arg) == EigenbasisOperator("n", 1, arg)

\* phi_ij and n_ij: evecs[level] raises IndexError when level >= len(evecs),
\* after _eigenspectrum_lc has already filled the cache.
MatrixElement(op, tag, level1, level2) ==
    /\ Ready
    /\ IF IndexOutOfBounds(level1) \/ IndexOutOfBounds(level2)
         THEN /\ last' = Ret(op, <<level1, level2>>, "", "OutOfBounds", <<>>, FALSE)
              /\ UNCHANGED cacheVars
         ELSE LET c == _eigenspectrum_lc(TRUE)
                  lc == LcOperator(E_C, E_L, nlev_lc)
              IN /\ StoreCache(c)
                 /\ IF level1 >= Len(c.eigvecs) \/ level2 >= Len(c.eigvecs)
                      THEN last' = Ret(op, <<level1, level2>>, "", "IndexError", <<>>, c.computed)
                      ELSE last' = Ret(op, <<level1, level2>>, "", "", <<matrix_element(tag, lc, c.eigvecs[level1 + 1], c.eigvecs[level2 + 1])>>, c.computed)
    /\ UNCHANGED <<devVars, threadVars>>

phi_ij(level1, level2) == MatrixElement("phi_ij", 0, level1, level2)

n_ij(level1, level2) == MatrixElement("n_ij", 1, level1, level2)

\* ---------------------------------------------------- real-space wavefunction
\* wavefunc: the bounds check, then the type check of phi_points, then the
\* spectrum, then evecs[level_ind] inside the loop over range(nlev_lc).
\* The result is (phi_points, wfunc) when phi_points is omitted, else wfunc.
wavefunc(level_ind, kind) ==
    /\ Ready
    /\ IF IndexOutOfBounds(level_ind)
         THEN /\ last' = Ret("wavefunc", <<level_ind>>, kind, "OutOfBounds", <<>>, FALSE)
              /\ UNCHANGED cacheVars
         ELSE IF kind = "str"
           THEN /\ last' = Ret("wavefunc", <<level_ind>>, kind, "InvalidInput", <<>>, FALSE)
                /\ UNCHANGED cacheVars
           ELSE LET c == _eigenspectrum_lc(TRUE)
                    lc == LcOperator(E_C, E_L, nlev_lc)
                IN /\ StoreCache(c)
                   /\ IF level_ind >= Len(c.eigvecs)
                        THEN last' = Ret("wavefunc", <<level_ind>>, kind, "IndexError", <<>>, c.computed)
                        ELSE last' = Ret("wavefunc", <<level_ind>>, kind, "", <<IF kind = "None" THEN 1 ELSE 0, c.eigvecs[level_ind + 1] * NLc + lc>>, c.computed)
    /\ UNCHANGED <<devVars, threadVars>>

\* ------------------------------------------------- single-threaded behaviour
\* __init__: the six assignments, each through its setter where one exists.
\* A non-positive E_L, E_C or nlev_lc raises, so no device is constructed;
\* nlev is stored as given.
Init ==
    /\ E_L \in {v \in EnergyArgs : ~NotPositive(v)}
    /\ E_C \in {v \in EnergyArgs : ~NotPositive(v)}
    /\ E_J \in EJArgs
    /\ phi_ext \in PhiArgs
    /\ nlev \in LevArgs
    /\ nlev_lc \in {v \in LevArgs : ~NotPositive(v) /\ v <= MaxLev}
    /\ eigvals = None
    /\ eigvecs = None
    /\ valsDiag = 0
    /\ vecsDiag = 0
    /\ last = Constructed
    /\ pc = [t \in {"w", "r"} |-> "idle"]
    /\ H_loc = None
    /\ w_val = 0
    /\ locking = FALSE
    /\ lock = "free"

Next ==
    \/ \E value \in EnergyArgs : E_L_setter(value)
    \/ \E value \in EnergyArgs : E_C_setter(value)
    \/ \E value \in EJArgs : E_J_setter(value)
    \/ \E value \in PhiArgs : phi_ext_setter(value)
    \/ \E value \in 0..MaxLev : nlev_lc_setter(value)
    \/ \E value \in LevArgs : nlev_assign(value)
    \/ \E arg \in OptArgs(LevArgs) : levels(arg)
    \/ \E level_ind \in IndexArgs : level(level_ind)
    \/ \E level1 \in IndexArgs, level2 \in IndexArgs : freq(level1, level2)
    \/ \E arg \in OptArgs(LevArgs) : H(arg)
    \/ \E arg \in OptArgs(LevArgs) : eye(arg)
    \/ \E arg \in OptArgs(LevArgs) : phi(arg)
    \/ \E arg \in OptArgs(LevArgs) : n(arg)
    \/ \E level1 \in IndexArgs, level2 \in IndexArgs : phi_ij(level1, level2)
    \/ \E level1 \in IndexArgs, level2 \in IndexArgs : n_ij(level1, level2)
    \/ \E level_ind \in IndexArgs, kind \in PhiPointsKinds : wavefunc(level_ind, kind)
    \/ Return

Spec == Init /\ [][Next]_vars

\* ------------------------------------------------------ two threads, one device
\* Thread "w" runs the E_C setter, thread "r" runs _eigenspectrum_lc() as
\* called by levels/level; the interpreter may switch threads between any two
\* statements.  With `locking` the callers wrap each call in one external lock.
Threads == {"w", "r"}

Acquire(t) == IF locking THEN lock = "free" /\ lock' = t ELSE lock' = lock

Release(t) == IF locking THEN lock' = "free" ELSE lock' = lock

\* the call `dev.E_C = value`
W_call(value) ==
    /\ pc["w"] = "idle"
    /\ Acquire("w")
    /\ w_val' = value
    /\ pc' = [pc EXCEPT !["w"] = "write"]
    /\ UNCHANGED <<devVars, cacheVars, last, H_loc, locking>>

\* `if value <= 0: raise ...` else `self._E_C = value`
W_write ==
    /\ pc["w"] = "write"
    /\ IF NotPositive(w_val)
         THEN /\ pc' = [pc EXCEPT !["w"] = "idle"]
              /\ Release("w")
              /\ UNCHANGED E_C
         ELSE /\ E_C' = w_val
              /\ pc' = [pc EXCEPT !["w"] = "reset_vals"]
              /\ UNCHANGED lock
    /\ UNCHANGED <<E_L, E_J, phi_ext, nlev, nlev_lc, cacheVars, last, H_loc, w_val, locking>>

W_reset_vals_skipped ==
    /\ pc["w"] = "reset_vals"
    /\ pc' = [pc EXCEPT !["w"] = "reset_vecs"]
    /\ UNCHANGED <<devVars, cacheVars, last, H_loc, w_val, locking, lock>>

\* `self._eigvals = None`
W_reset_vals ==
    /\ pc["w"] = "reset_vals"
    /\ eigvals' = None
    /\ valsDiag' = 0
    /\ pc' = [pc EXCEPT !["w"] = "reset_vecs"]
    /\ UNCHANGED <<devVars, eigvecs, vecsDiag, last, H_loc, w_val, locking, lock>>

\* `self._eigvecs = None`, and the setter returns
W_reset_vecs ==
    /\ pc["w"] = "reset_vecs"
    /\ eigvecs' = None
    /\ vecsDiag' = 0
    /\ pc' = [pc EXCEPT !["w"] = "idle"]
    /\ Release("w")
    /\ UNCHANGED <<devVars, eigvals, valsDiag, last, H_loc, w_val, locking>>

\* the call `self._eigenspectrum_lc()`
R_call ==
    /\ pc["r"] = "idle"
    /\ Acquire("r")
    /\ pc' = [pc EXCEPT !["r"] = "test"]
    /\ UNCHANGED <<devVars, cacheVars, last, H_loc, w_val, locking>>

\* `if self._eigvals is None:`
R_test ==
    /\ pc["r"] = "test"
    /\ pc' = [pc EXCEPT !["r"] = IF eigvals = None THEN "build" ELSE "return"]
    /\ UNCHANGED <<devVars, cacheVars, last, H_loc, w_val, locking, lock>>

\* `H_lc = self._hamiltonian_lc()`
R_build ==
    /\ pc["r"] = "build"
    /\ H_loc' = _hamiltonian_lc
    /\ pc' = [pc EXCEPT !["r"] = "store"]
    /\ UNCHANGED <<devVars, cacheVars, last, w_val, locking, lock>>

\* `self._eigvals = H_lc.eigenenergies()`
R_store ==
    /\ pc["r"] = "store"
    /\ eigvals' = eigenenergies(H_loc)
    /\ valsDiag' = NewDiag
    /\ H_loc' = None
    /\ pc' = [pc EXCEPT !["r"] = "return"]
    /\ UNCHANGED <<devVars, eigvecs, vecsDiag, last, w_val, locking, lock>>

\* `return self._eigvals`
R_return ==
    /\ pc["r"] = "return"
    /\ pc' = [pc EXCEPT !["r"] = "idle"]
    /\ Release("r")
    /\ UNCHANGED <<devVars, cacheVars, last, H_loc, w_val, locking>>

ThreadsInit ==
    /\ E_L \in {v \in EnergyArgs : ~NotPositive(v)}
    /\ E_C \in {v \in EnergyArgs : ~NotPositive(v)}
    /\ E_J \in EJArgs
    /\ phi_ext \in PhiArgs
    /\ nlev = 1
    /\ nlev_lc \in {v \in LevArgs : ~NotPositive(v) /\ v <= MaxLev}
    /\ eigvals = None
    /\ eigvecs = None
    /\ valsDiag = 0
    /\ vecsDiag = 0
    /\ last = NoCall
    /\ pc = [t \in Threads |-> "idle"]
    /\ H_loc = None
    /\ w_val = 0
    /\ locking \in BOOLEAN
    /\ lock = "free"

ThreadsNext ==
    \/ \E value \in EnergyArgs : W_call(value)
    \/ W_write
    \/ W_reset_vals
    \/ W_reset_vecs
    \/ R_call
    \/ R_test
    \/ R_build
    \/ R_store
    \/ R_return

ThreadsSpec == ThreadsInit /\ [][ThreadsNext]_vars

\* ------------------------------------------------------------- shared notions
\* The cached eigenvalues, when present, are those of the current Hamiltonian.
Coherent == eigvals # None => eigvals = eigenenergies(_hamiltonian_lc)

AllIdle == \A t \in Threads : pc[t] = "idle"

SetterOps == {"E_L", "E_C", "E_J", "phi_ext", "nlev_lc"}

TruncationOps == {"levels", "H", "eye", "phi", "n"}

ValueOps == {"levels", "level", "freq", "H"}

VectorOps == {"phi", "n", "phi_ij", "n_ij", "wavefunc"}

ElementOps == {"phi_ij", "n_ij", "wavefunc"}

\* ------------------------------------------------------------------- claims
\* C1: after every successful call of the setter of E_L, E_C, E_J, phi_ext or
\* nlev_lc (E_J <= 0 included) the cached eigenvalues and eigenvectors are
\* both None, whatever was cached before and whatever the old value was.
C1_SetterInvalidates == (last.op \in SetterOps /\ last.err = "") => (eigvals = None /\ eigvecs = None)

\* A non-positive E_J equal to the stored one was written over a full cache.
C1_Witness == last.op = "E_J" /\ last.err = "" /\ last.kind = "warning" /\ last.pre.vals /\ last.pre.vecs /\ last.pre.old = last.args /\ eigvals = None /\ eigvecs = None

\* C2: a write of a value <= 0 to E_L, E_C or nlev_lc raises and changes
\* neither a stored parameter nor the cached eigenvalues and eigenvectors.
C2_RejectedWriteKeepsState == [][(last'.op \in {"E_L", "E_C", "nlev_lc"} /\ last'.args[1] <= 0) => (last'.err = "InvalidParameter" /\ UNCHANGED <<devVars, cacheVars>>)]_vars

\* A write was rejected while eigenvalues and eigenvectors were cached.
C2_Witness == last.op \in {"E_L", "E_C", "nlev_lc"} /\ last.err = "InvalidParameter" /\ last.pre.vals /\ last.pre.vecs /\ eigvals # None /\ eigvecs # None

\* C3: levels, H, eye, phi and n raise OutOfBounds exactly when the truncation
\* (the argument, or the stored nlev when it is omitted) is < 1 or > nlev_lc,
\* and raise nothing else.
C3_TruncationBounds ==
    last.op \in TruncationOps =>
        LET m == IF last.args = None THEN nlev ELSE last.args[1] IN
          /\ last.err \in {"", "OutOfBounds"}
          /\ last.err = "OutOfBounds" <=> (m < 1 \/ m > nlev_lc)

\* phi() with n omitted and the stored nlev equal to nlev_lc returned the
\* full nlev_lc x nlev_lc matrix.
C3_Witness == last.op = "phi" /\ last.args = None /\ nlev = nlev_lc /\ nlev_lc > 1 /\ last.err = "" /\ Len(last.ret) = nlev_lc * nlev_lc

\* C4: phi_ij, n_ij and wavefunc raise OutOfBounds exactly when an index is
\* < 0 or > nlev_lc, and with every index in 0..nlev_lc (and phi_points of a
\* valid type) they return a value.
C4_InclusiveIndexAccepted ==
    last.op \in ElementOps =>
        LET bad == \E k \in 1..Len(last.args) : last.args[k] < 0 \/ last.args[k] > nlev_lc IN
          /\ last.err = "OutOfBounds" <=> bad
          /\ (~bad /\ last.kind # "str") => last.err = ""

\* C5: when a levels call has returned, a levels call made next (before any
\* other call) does not diagonalize, leaves the cache as it is, and with the
\* same argument returns the same eigenvalues.
C5_SecondLevelsIsCacheHit ==
    (last.op = "levels" /\ last.err = "") =>
        \A arg \in OptArgs(LevArgs) :
            LET second == levels_call(arg) IN
              /\ ~second.r.computed
              /\ second.c = CacheNow
              /\ arg = last.args => (second.r.err = "" /\ second.r.ret = last.ret)

\* A levels call found the eigenvalues cached and returned several of them
\* without diagonalizing.
C5_Witness == last.op = "levels" /\ last.err = "" /\ ~last.computed /\ last.pre.vals /\ Len(last.ret) > 1 /\ last.ret = levels_call(last.args).r.ret

\* C6 as stated: the stored nlev is always within 1..nlev_lc.
C6_NlevAlwaysWithinBounds == 1 <= nlev /\ nlev <= nlev_lc

\* C6 amended: nlev_lc >= 1 always, and the stored nlev is within 1..nlev_lc
\* in every state in which a call of levels, H, eye, phi or n with the
\* truncation omitted has just succeeded.
C6_NlevCheckedAtUse ==
    /\ nlev_lc >= 1
    /\ (last.op \in TruncationOps /\ last.args = None /\ last.err = "") => (1 <= nlev /\ nlev <= nlev_lc)

\* levels() with the truncation omitted succeeded with nlev at the upper bound.
C6_Witness == last.op = "levels" /\ last.args = None /\ last.err = "" /\ nlev = nlev_lc /\ Len(last.ret) = nlev

\* C7: freq(i, j) raises OutOfBounds exactly when i or j is outside
\* 0..nlev_lc-1, which is exactly when level(i) or level(j) raises; otherwise
\* it returns what level(j) returns minus what level(i) returns, and
\* freq(j, i) called next returns the negation.
C7_FreqIsLevelDifference ==
    last.op = "freq" =>
        LET i == last.args[1]
            j == last.args[2]
            inside(k) == 0 <= k /\ k < nlev_lc
        IN /\ last.err \in {"", "OutOfBounds"}
           /\ last.err = "OutOfBounds" <=> ~(inside(i) /\ inside(j))
           /\ last.err = "OutOfBounds" <=> (level_call(i).r.err # "" \/ level_call(j).r.err # "")
           /\ last.err = "" =>
                /\ last.ret = <<level_call(j).r.ret[1] - level_call(i).r.ret[1]>>
                /\ freq_call(j, i).r.err = ""
                /\ freq_call(j, i).r.ret[1] = 0 - last.ret[1]

\* freq(1, 0) returned a negative transition energy.
C7_Witness == last.op = "freq" /\ last.args = <<1, 0>> /\ last.err = "" /\ last.ret[1] < 0 /\ freq_call(0, 1).r.ret[1] > 0

\* C8: when every call is made under the one external lock, then whenever no
\* call is in progress the cached eigenvalues are those of the current
\* parameters; without the lock a state is reachable (C8_Witness) in which
\* both calls have returned and the cache holds a superseded spectrum.
C8_LockedCallsKeepCacheCoherent == (locking /\ AllIdle) => Coherent

\* Without the lock, both calls have returned and the cache is stale.
C8_Witness == ~locking /\ AllIdle /\ eigvals # None /\ eigvals # eigenenergies(_hamiltonian_lc)

\* C9: an accessor that asks for eigenvalues only diagonalizes exactly when
\* eigvals is None and never writes eigvecs; an accessor that asks for
\* eigenvectors diagonalizes exactly when eigvals or eigvecs is None and then
\* overwrites both from one diagonalization; otherwise the cache is unchanged.
C9_CachePolicy ==
    [][(last'.op \in (ValueOps \cup VectorOps) /\ last'.err \in {"", "IndexError"}) =>
          IF last'.op \in ValueOps
            THEN /\ last'.computed <=> eigvals = None
                 /\ UNCHANGED <<eigvecs, vecsDiag>>
                 /\ IF eigvals = None
                      THEN eigvals' = eigenenergies(_hamiltonian_lc) /\ valsDiag' # 0
                      ELSE UNCHANGED <<eigvals, valsDiag>>
            ELSE /\ last'.computed <=> (eigvals = None \/ eigvecs = None)
                 /\ IF eigvals = None \/ eigvecs = None
                      THEN /\ eigvals' = eigenenergies(_hamiltonian_lc)
                           /\ eigvecs' = eigenstates(_hamiltonian_lc)
                           /\ valsDiag' = vecsDiag'
                           /\ valsDiag' \notin {0, valsDiag, vecsDiag}
                      ELSE UNCHANGED cacheVars]_vars

\* Eigenvectors were requested while only eigenvalues were cached.
C9_Witness == last.op \in VectorOps /\ last.err = "" /\ last.pre.vals /\ ~last.pre.vecs /\ last.computed /\ eigvecs # None /\ valsDiag = vecsDiag

\* C10: cached eigenvalues are the nlev_lc eigenvalues of the Hamiltonian of
\* the current parameters; cached eigenvectors come with cached eigenvalues
\* of the same diagonalization; the cache is empty after construction; and
\* levels and level return entries of the current spectrum.
C10_CacheCoherent ==
    /\ eigvals # None => (eigvals = eigenenergies(_hamiltonian_lc) /\ Len(eigvals) = nlev_lc /\ valsDiag # 0)
    /\ eigvecs # None => (eigvals # None /\ vecsDiag = valsDiag /\ eigvecs = eigenstates(_hamiltonian_lc))
    /\ last.op = "__init__" => (eigvals = None /\ eigvecs = None)
    /\ (last.op = "levels" /\ last.err = "") => last.ret = Slice(eigenenergies(_hamiltonian_lc), IF last.args = None THEN nlev ELSE last.args[1])
    /\ (last.op = "level" /\ last.err = "") => last.ret = <<eigenenergies(_hamiltonian_lc)[last.args[1] + 1]>>

\* Eigenvalues cached alone were later replaced, together with eigenvectors,
\* by a second diagonalization.
C10_Witness == eigvals # None /\ eigvecs # None /\ valsDiag = 2 /\ vecsDiag = 2 /\ Len(eigvals) = nlev_lc /\ Len(eigvecs) = nlev_lc

====
